---- MODULE Spec2Model ----
(***************************************************************************)
(* Model of the upload path of backend/files/views.py (FileViewSet.create  *)
(* with its local helper execute_with_retry) over the File table of        *)
(* backend/files/models.py.  Every upload request is one process; its      *)
(* steps are the store operations of create, so that uploads interleave    *)
(* exactly where the handler talks to the database.                        *)
(***************************************************************************)
EXTENDS Integers, Sequences, FiniteSets, TLC

\* ---------------------------------------------------------------- bounds
\* Upload requests of a run, and how many of them are handled at once.
NumUploads == 3
MaxInFlight == 2
\* Rows of a table handed to stats, and the largest reference_count in it.
MaxRows == 2
MaxRefs == 3

Uploads == 1..NumUploads

\* Uploaded byte strings (the contents of request.FILES['file']) and names.
Contents == { << >>, << 104, 105 >> }
Names == { "a.txt", "b.txt" }

\* What the database answers to one statement: it executes it, or raises
\* OperationalError("database is locked"), an OperationalError with another
\* message, or an exception that is no OperationalError (IntegrityError, ...).
Answers == { "ok", "locked", "operational", "other" }

\* ------------------------------------------------------ program constants
max_retries == 3
BaseDelayMs == 500
HTTP_200_OK == 200
HTTP_201_CREATED == 201
HTTP_400_BAD_REQUEST == 400
HTTP_500_INTERNAL_SERVER_ERROR == 500

None == 0

\* A size column that holds NULL (sizes are never negative).
Null == -1

\* request.FILES.get('file') when the request carries no file.
NoFile == [content |-> << >>, name |-> ""]

\* existing_file when .first() returned None.
NoInstance == [pk |-> None, reference_count |-> 0, file |-> None]

VARIABLES
    records,          \* the File table, in insertion (uploaded_at) order; pk = index
    blobs,            \* the storage backend: the hash of each file written, by key
    pc,               \* where each request is in create
    file_obj,         \* request.FILES.get('file') of each request
    existing_file,    \* the model instance the lookup returned
    highest_version,  \* the value of the version query
    executed,         \* the database statement of this step: who, which, the
                      \* answers it got, the sleeps between them, how it ended
    returned,         \* the Response create returns in this step, and to whom
    stats,            \* the stats request: where it is, its locals, its Response
    serial            \* whether the server handles one request at a time

vars == << records, blobs, pc, file_obj, existing_file, highest_version,
           executed, returned, stats, serial >>

\* ------------------------------------------------------------ pure parts

\* models.py compute_file_hash: the MD5 hex digest of the chunks; distinct
\* contents of the model have distinct digests.
compute_file_hash(content) == << "md5", content >>

\* file_obj.size
SizeOf(content) == Len(content)

RECURSIVE Pow2(_)
Pow2(n) == IF n = 0 THEN 1 ELSE 2 * Pow2(n - 1)

Max(S) == CHOOSE x \in S : \A y \in S : y <= x

\* The lookup without its is_duplicate filter.
FindOriginal_AnyRow(recs, h) ==
    LET match == { i \in 1..Len(recs) : recs[i].file_hash = h }
    IN  IF match = {} THEN None ELSE Max(match)

\* The lookup without its file_hash filter.
FindOriginal_AnyHash(recs, h) ==
    LET match == { i \in 1..Len(recs) : ~recs[i].is_duplicate }
    IN  IF match = {} THEN None ELSE Max(match)

\* File.objects.filter(file_hash=file_hash, is_duplicate=False).first():
\* Meta.ordering is ['-uploaded_at'], so the newest matching row, or None.
FindOriginal(recs, h) ==
    LET match == { i \in 1..Len(recs) :
                      recs[i].file_hash = h /\ ~recs[i].is_duplicate }
    IN  IF match = {} THEN None ELSE Max(match)

\* The version query restricted to the rows that are duplicates.
HighestVersion_DuplicatesOnly(recs, name) ==
    LET vs == { recs[i].version : i \in { j \in 1..Len(recs) :
                  recs[j].original_filename = name /\ recs[j].is_duplicate } }
    IN  IF vs = {} THEN 0 ELSE Max(vs)

\* The version query restricted to the rows that are no duplicates.
HighestVersion_OriginalsOnly(recs, name) ==
    LET vs == { recs[i].version : i \in { j \in 1..Len(recs) :
                  recs[j].original_filename = name /\ ~recs[j].is_duplicate } }
    IN  IF vs = {} THEN 0 ELSE Max(vs)

\* File.objects.filter(original_filename=name).order_by('-version')
\*     .values_list('version', flat=True).first() or 0
HighestVersion(recs, name) ==
    LET vs == { recs[i].version : i \in { j \in 1..Len(recs) :
                                            recs[j].original_filename = name } }
    IN  IF vs = {} THEN 0 ELSE Max(vs)

\* except OperationalError as e
IsOperationalError(err) == err \in { "locked", "operational" }

\* The except clause without its test of retry_count.
ShouldRetry_Unbounded(err, retry_count) ==
    /\ IsOperationalError(err)
    /\ err = "locked"

\* The except clause without its test of the message.
ShouldRetry_AnyOperationalError(err, retry_count) ==
    /\ IsOperationalError(err)
    /\ retry_count < max_retries - 1

\* The test of the except clause of execute_with_retry: retry, or re-raise.
ShouldRetry(err, retry_count) ==
    /\ IsOperationalError(err)
    /\ err = "locked"
    /\ retry_count < max_retries - 1

\* sleep_time = 0.5 * (2 ** retry_count), in milliseconds; retry_count has
\* been incremented when it is computed.
SleepTime(retry_count) == BaseDelayMs * Pow2(retry_count)

\* One run of execute_with_retry: what the database answered to each call of
\* func, the time.sleep arguments, and how the helper was left.
Run(left, err, answers, slept) ==
    [left |-> left, err |-> err, answers |-> answers, slept |-> slept]

\* execute_with_retry(func): every run the loop can make from retry_count,
\* over the answers the database may give.
RECURSIVE execute_with_retry(_, _, _)
execute_with_retry(retry_count, answers, slept) ==
    IF ~(retry_count < max_retries)
    THEN { Run("raise", "failed_after", answers, slept) }
    ELSE UNION {
           IF ans = "ok"
           THEN { Run("return", "none", Append(answers, ans), slept) }
           ELSE IF ShouldRetry(ans, retry_count)
           THEN execute_with_retry(retry_count + 1, Append(answers, ans),
                                   Append(slept, SleepTime(retry_count + 1)))
           ELSE { Run("raise", ans, Append(answers, ans), slept) }
           : ans \in Answers }

\* The value of a call that succeeded only after a retry dropped (the helper
\* returning None there).
ReturnOf_LostOnRetry(run, value) ==
    IF Len(run.answers) > 1 THEN None ELSE value

\* return func(): the helper returns what the call that succeeded returned,
\* however many calls were made before it.
ReturnOf(run, value) == value

\* execute_with_retry(func) as create calls it: retry_count = 0 at entry.
GuardedRuns == execute_with_retry(0, << >>, << >>)

\* The property without the "- 1": every reference counted as saved.
storage_saved_EveryReference(rec) ==
    IF ~rec.is_duplicate /\ rec.reference_count > 1
    THEN rec.size * rec.reference_count
    ELSE 0

\* File.storage_saved
storage_saved(rec) ==
    IF ~rec.is_duplicate /\ rec.reference_count > 1
    THEN rec.size * (rec.reference_count - 1)
    ELSE 0

\* The instance saved with the reference count it was read with.
IncrementReference_Lost(ef) == ef

\* existing_file.reference_count = existing_file.reference_count + 1
IncrementReference(ef) == [ef EXCEPT !.reference_count = @ + 1]

\* The UPDATE without its WHERE clause on the primary key.
SaveExisting_EveryRow(recs, ef) ==
    [i \in DOMAIN recs |->
        [recs[i] EXCEPT !.reference_count = ef.reference_count]]

\* existing_file.save(): UPDATE of the row with the instance's field values.
SaveExisting(recs, ef) ==
    [recs EXCEPT ![ef.pk].reference_count = ef.reference_count]

\* File(..., is_duplicate=True, original_file=existing_file, version=...)
NewDuplicate(f, ef, hv) ==
    [ file              |-> ef.file,
      original_filename |-> f.name,
      size              |-> SizeOf(f.content),
      file_hash         |-> compute_file_hash(f.content),
      is_duplicate      |-> TRUE,
      original_file     |-> ef.pk,
      reference_count   |-> 1,
      version           |-> hv + 1 ]

\* File(file=file_obj, ..., is_duplicate=False, reference_count=1, version=...)
NewOriginal(f, key, hv) ==
    [ file              |-> key,
      original_filename |-> f.name,
      size              |-> SizeOf(f.content),
      file_hash         |-> compute_file_hash(f.content),
      is_duplicate      |-> FALSE,
      original_file     |-> None,
      reference_count   |-> 1,
      version           |-> hv + 1 ]

\* File.storage_saved on a row whose size is NULL: None * int raises
\* TypeError, when the multiplication is reached.
storage_saved_raises(rec) ==
    /\ ~rec.is_duplicate
    /\ rec.reference_count > 1
    /\ rec.size = Null

\* sum(...) of stats, over the values in queryset order.
RECURSIVE sum(_)
sum(values) == IF values = << >> THEN 0 ELSE Head(values) + sum(Tail(values))

IsOriginalRow(rec) == ~rec.is_duplicate
HasSize(rec) == ~rec.is_duplicate /\ rec.size # Null

\* File.objects.filter(is_duplicate=False).exclude(size__isnull=True), and
\* sum(f.size or 0 for f in files_with_size)
total_storage(recs) ==
    LET files_with_size == SelectSeq(recs, HasSize)
    IN  sum([i \in 1..Len(files_with_size) |->
               IF files_with_size[i].size = Null THEN 0
               ELSE files_with_size[i].size])

\* sum(getattr(file, 'storage_saved', 0) for file in
\*     File.objects.filter(is_duplicate=False)); getattr's default covers
\* AttributeError only, so the property's TypeError leaves the sum.
storage_saved_sum(recs) ==
    LET files == SelectSeq(recs, IsOriginalRow)
    IN  IF \E i \in 1..Len(files) : storage_saved_raises(files[i])
        THEN [raised |-> TRUE, value |-> 0]
        ELSE [raised |-> FALSE,
              value |-> sum([i \in 1..Len(files) |-> storage_saved(files[i])])]

\* f"{x:.2f}" of the quotient n / d: the number of hundredths nearest to it
\* (a tie goes to the even one).
Format2f(n, d) ==
    LET q == (n * 100) \div d
        r == (n * 100) % d
    IN  IF 2 * r > d \/ (2 * r = d /\ q % 2 = 1) THEN q + 1 ELSE q

\* (storage_saved / total_storage * 100) if total_storage > 0 else 0, as the
\* Response formats it, in hundredths of a percent.
storage_efficiency(saved, total) ==
    IF total > 0 THEN Format2f(saved * 100, total) ELSE 0

\* The writes of the block left in place (no transaction around them).
atomic_rollback_Missing(committed, uncommitted) == uncommitted

\* with transaction.atomic(), left by an exception: the block's uncommitted
\* writes are rolled back.
atomic_rollback(committed, uncommitted) == committed

\* -------------------------------------------------------------- responses
\* A Response of create: its HTTP status, what its body reports, and the row
\* it serializes.
Resp(p, status, kind, pk) ==
    [request |-> p, status |-> status, kind |-> kind, pk |-> pk]

NoResponse == Resp(None, 0, "none", None)

Created(p, kind, pk) == Resp(p, HTTP_201_CREATED, kind, pk)

\* lines 139-140
NoFileProvided(p) == Resp(p, HTTP_400_BAD_REQUEST, "no_file", None)

\* The hash failure answered like the missing file.
HashError_BadRequest(p) == Resp(p, HTTP_400_BAD_REQUEST, "hash_error", None)

\* lines 149-154
HashError(p) == Resp(p, HTTP_500_INTERNAL_SERVER_ERROR, "hash_error", None)

\* lines 240-245
Unexpected(p) == Resp(p, HTTP_500_INTERNAL_SERVER_ERROR, "unexpected", None)

\* A statement as executed: by which request, which one, and its run.
Exec(p, op, run) ==
    [request |-> p, op |-> op, left |-> run.left, err |-> run.err,
     answers |-> run.answers, slept |-> run.slept]

NoExec == Exec(None, "none", Run("none", "none", << >>, << >>))

\* A statement outside execute_with_retry: one call, no handler.
Unguarded(ans) ==
    IF ans = "ok" THEN Run("return", "none", << ans >>, << >>)
    ELSE Run("raise", ans, << ans >>, << >>)

\* The stats request before it starts: no local is bound.
NoStats ==
    [pc |-> "idle", status |-> 0, raised |-> "none",
     total_files |-> 0, unique_files |-> 0, duplicate_files |-> 0,
     total_storage |-> 0, storage_saved |-> 0, storage_efficiency |-> 0]

\* ------------------------------------------------------------------- Init
Init ==
    /\ records = << >>
    /\ blobs = << >>
    /\ pc = [p \in Uploads |-> "idle"]
    /\ file_obj = [p \in Uploads |-> NoFile]
    /\ existing_file = [p \in Uploads |-> NoInstance]
    /\ highest_version = [p \in Uploads |-> 0]
    /\ executed = NoExec
    /\ returned = NoResponse
    /\ stats = NoStats
    /\ serial = FALSE

InFlight == { q \in Uploads : pc[q] \notin { "idle", "done" } }

\* Requests are numbered in the order they arrive.
Arrives(p) == pc[p] = "idle" /\ (IF p = 1 THEN TRUE ELSE pc[p - 1] # "idle")

\* The names a request may carry.  Names are interchangeable, so the first
\* request's name is fixed.
NamesOf(p) == IF p = 1 THEN { "a.txt" } ELSE Names

\* create returns: the request is over and its locals are gone.
Return(p, resp) ==
    /\ pc' = [pc EXCEPT ![p] = "done"]
    /\ returned' = resp
    /\ file_obj' = [file_obj EXCEPT ![p] = NoFile]
    /\ existing_file' = [existing_file EXCEPT ![p] = NoInstance]
    /\ highest_version' = [highest_version EXCEPT ![p] = 0]
    /\ UNCHANGED << stats, serial >>

\* create goes on to its next statement.
Goto(p, next) ==
    /\ pc' = [pc EXCEPT ![p] = next]
    /\ returned' = NoResponse
    /\ UNCHANGED << stats, serial >>

\* ---------------------------------------------------------------- actions

\* create, lines 138-140: no file in the request.
SubmitNoFile(p) ==
    /\ Arrives(p)
    /\ Return(p, NoFileProvided(p))
    /\ executed' = NoExec
    /\ UNCHANGED << records, blobs >>

\* create, lines 145-154: reading the chunks for the hash raises.
SubmitUnreadable(p) ==
    /\ Arrives(p)
    /\ Return(p, HashError(p))
    /\ executed' = Exec(p, "hash", Run("raise", "other", << >>, << >>))
    /\ UNCHANGED << records, blobs >>

\* create, lines 138-165: the file is there and hashed.
Submit(p) ==
    /\ Arrives(p)
    /\ Cardinality(InFlight) < MaxInFlight
    /\ \E c \in Contents, n \in NamesOf(p) :
          file_obj' = [file_obj EXCEPT ![p] = [content |-> c, name |-> n]]
    /\ Goto(p, "lookup")
    /\ executed' = NoExec
    /\ UNCHANGED << records, blobs, existing_file, highest_version >>

\* create, lines 184-186: execute_with_retry on the lookup.  The calls that
\* raise read nothing; the one that returns reads the table as it is then.
Lookup(p) ==
    /\ pc[p] = "lookup"
    /\ \E run \in GuardedRuns :
          /\ executed' = Exec(p, "lookup", run)
          /\ IF run.left = "return"
             THEN LET pk == ReturnOf(run,
                                FindOriginal(records,
                                    compute_file_hash(file_obj[p].content)))
                  IN  /\ existing_file' = [existing_file EXCEPT ![p] =
                             IF pk = None THEN NoInstance
                             ELSE [pk |-> pk,
                                   reference_count |-> records[pk].reference_count,
                                   file |-> records[pk].file]]
                      /\ Goto(p, "version")
                      /\ UNCHANGED << file_obj, highest_version >>
             ELSE Return(p, Unexpected(p))
    /\ UNCHANGED << records, blobs >>

\* create, lines 189-191: execute_with_retry on the version query.
Version(p) ==
    /\ pc[p] = "version"
    /\ \E run \in GuardedRuns :
          /\ executed' = Exec(p, "version", run)
          /\ IF run.left = "return"
             THEN /\ highest_version' = [highest_version EXCEPT ![p] =
                         ReturnOf(run,
                             HighestVersion(records, file_obj[p].name))]
                  /\ Goto(p, IF existing_file[p].pk # None
                             THEN "increment" ELSE "insert_original")
                  /\ UNCHANGED << file_obj, existing_file >>
             ELSE Return(p, Unexpected(p))
    /\ UNCHANGED << records, blobs >>

\* create, lines 193-200: the transaction begins; the reference count of the
\* instance the lookup read is raised and the instance saved.  The UPDATE
\* stays uncommitted until the block is left.
Increment(p) ==
    /\ pc[p] = "increment"
    /\ \E ans \in Answers :
          /\ executed' = Exec(p, "increment", Unguarded(ans))
          /\ IF ans = "ok"
             THEN /\ existing_file' = [existing_file EXCEPT ![p] =
                         IncrementReference(@)]
                  /\ Goto(p, "insert_duplicate")
                  /\ UNCHANGED << file_obj, highest_version >>
             ELSE Return(p, Unexpected(p))
    /\ UNCHANGED << records, blobs >>

\* create, lines 203-219: the duplicate row is inserted and the block left:
\* committed, or rolled back by the exception.
InsertDuplicate(p) ==
    /\ pc[p] = "insert_duplicate"
    /\ \E ans \in Answers :
          LET updated == SaveExisting(records, existing_file[p])
              new_file == NewDuplicate(file_obj[p], existing_file[p],
                                       highest_version[p])
          IN  /\ executed' = Exec(p, "insert_duplicate", Unguarded(ans))
              /\ IF ans = "ok"
                 THEN /\ records' = Append(updated, new_file)
                      /\ Return(p, Created(p, "DUPLICATE", Len(records) + 1))
                 ELSE /\ records' = atomic_rollback(records, updated)
                      /\ Return(p, Unexpected(p))
    /\ UNCHANGED blobs

\* create, lines 193, 220-238: the new original is saved.  The FileField
\* writes the bytes to storage before the INSERT is issued.
InsertOriginal(p) ==
    /\ pc[p] = "insert_original"
    /\ blobs' = Append(blobs, compute_file_hash(file_obj[p].content))
    /\ \E ans \in Answers :
          LET new_file == NewOriginal(file_obj[p], Len(blobs) + 1,
                                      highest_version[p])
          IN  /\ executed' = Exec(p, "insert_original", Unguarded(ans))
              /\ IF ans = "ok"
                 THEN /\ records' = Append(records, new_file)
                      /\ Return(p, Created(p, "ORIGINAL", Len(records) + 1))
                 ELSE /\ records' = atomic_rollback(records, records)
                      /\ Return(p, Unexpected(p))

Step(p) ==
    \/ SubmitNoFile(p)
    \/ SubmitUnreadable(p)
    \/ Submit(p)
    \/ Lookup(p)
    \/ Version(p)
    \/ Increment(p)
    \/ InsertDuplicate(p)
    \/ InsertOriginal(p)

\* Requests handled concurrently.
Next == \E p \in Uploads : Step(p)

Spec == Init /\ [][Next]_vars

\* Requests handled one after another: a request moves only while no other
\* request is in flight.
Quiet(p) == InFlight \subseteq { p }

NextSeq == \E p \in Uploads : Quiet(p) /\ Step(p)

SpecSeq == Init /\ [][NextSeq]_vars

\* The same, with the handler of the request in flight always getting to
\* run its next statement.
SpecSeqFair == SpecSeq /\ WF_vars(NextSeq)

\* As many requests as the server can have in flight together, handled
\* either one at a time or concurrently, as the server is set up.
Together == 1..MaxInFlight

InitTogether ==
    /\ records = << >>
    /\ blobs = << >>
    /\ pc = [p \in Uploads |-> "idle"]
    /\ file_obj = [p \in Uploads |-> NoFile]
    /\ existing_file = [p \in Uploads |-> NoInstance]
    /\ highest_version = [p \in Uploads |-> 0]
    /\ executed = NoExec
    /\ returned = NoResponse
    /\ stats = NoStats
    /\ serial \in BOOLEAN

NextTogether == \E p \in Together : (serial => Quiet(p)) /\ Step(p)

SpecTogether == InitTogether /\ [][NextTogether]_vars

\* ------------------------------------------------------------------ stats
\* The columns of a File row that stats reads.
StatSizes == { Null, 0, 3, 7 }

StatRows ==
    [size : StatSizes, is_duplicate : BOOLEAN, reference_count : 1..MaxRefs]

\* The tables of at most MaxRows rows.
StatTables == UNION { [1..n -> StatRows] : n \in 0..MaxRows }

CountWhere(recs, dup) ==
    Cardinality({ i \in 1..Len(recs) : recs[i].is_duplicate = dup })

\* stats touches no local of create and writes nothing to the store.
StatsOnly ==
    UNCHANGED << records, blobs, pc, file_obj, existing_file,
                 highest_version, executed, returned, serial >>

\* stats, line 407
StatsCountTotal ==
    /\ stats.pc = "idle"
    /\ stats' = [stats EXCEPT !.pc = "unique", !.total_files = Len(records)]
    /\ StatsOnly

\* stats, line 408
StatsCountUnique ==
    /\ stats.pc = "unique"
    /\ stats' = [stats EXCEPT !.pc = "duplicate",
                               !.unique_files = CountWhere(records, FALSE)]
    /\ StatsOnly

\* stats, line 409
StatsCountDuplicate ==
    /\ stats.pc = "duplicate"
    /\ stats' = [stats EXCEPT !.pc = "storage",
                               !.duplicate_files = CountWhere(records, TRUE)]
    /\ StatsOnly

\* stats, lines 412-413
StatsTotalStorage ==
    /\ stats.pc = "storage"
    /\ stats' = [stats EXCEPT !.pc = "saved",
                               !.total_storage = total_storage(records)]
    /\ StatsOnly

\* stats, lines 416-431: the inner try, its handler, and the Response.  The
\* handler catches the property's TypeError and a database error of the
\* query alike.
StatsStorageSaved ==
    /\ stats.pc = "saved"
    /\ \E ans \in { "ok", "operational" } :
          LET s == storage_saved_sum(records)
          IN  stats' =
                IF ans = "ok" /\ ~s.raised
                THEN [stats EXCEPT
                        !.pc = "done", !.status = HTTP_200_OK,
                        !.storage_saved = s.value,
                        !.storage_efficiency =
                            storage_efficiency(s.value, stats.total_storage)]
                ELSE [stats EXCEPT
                        !.pc = "done", !.status = HTTP_200_OK,
                        !.raised = IF ans = "ok" THEN "TypeError" ELSE ans,
                        !.storage_saved = 0,
                        !.storage_efficiency = 0]
    /\ StatsOnly

\* stats, lines 432-437: a query of lines 407-413 raises.
StatsFails ==
    /\ stats.pc \in { "idle", "unique", "duplicate", "storage" }
    /\ stats' = [NoStats EXCEPT !.pc = "done", !.raised = "operational",
                                 !.status = HTTP_500_INTERNAL_SERVER_ERROR]
    /\ StatsOnly

\* One stats request over a table that no upload changes meanwhile.
InitStats ==
    /\ records \in StatTables
    /\ blobs = << >>
    /\ pc = [p \in Uploads |-> "idle"]
    /\ file_obj = [p \in Uploads |-> NoFile]
    /\ existing_file = [p \in Uploads |-> NoInstance]
    /\ highest_version = [p \in Uploads |-> 0]
    /\ executed = NoExec
    /\ returned = NoResponse
    /\ stats = NoStats
    /\ serial = FALSE

NextStats ==
    \/ StatsCountTotal
    \/ StatsCountUnique
    \/ StatsCountDuplicate
    \/ StatsTotalStorage
    \/ StatsStorageSaved
    \/ StatsFails

SpecStats == InitStats /\ [][NextStats]_vars

\* One stats request while uploads are handled, one upload after another:
\* each query of stats is a statement of its own (no transaction around
\* them), so uploads commit between them.
NextServing == NextSeq \/ NextStats

SpecServing == Init /\ [][NextServing]_vars

\* ------------------------------------------------------------- properties
Hashes == { compute_file_hash(c) : c \in Contents }
Rows == 1..Len(records)
WithHash(h) == { i \in Rows : records[i].file_hash = h }
Originals(h) == { i \in WithHash(h) : ~records[i].is_duplicate }
Duplicates(h) == { i \in WithHash(h) : records[i].is_duplicate }
DuplicatesOf(o) ==
    { i \in Rows : records[i].is_duplicate /\ records[i].original_file = o }
Guarded == { "lookup", "version" }
NonContention == { "operational", "other" }

\* C1: once all uploads have completed, every fingerprint that was stored has
\* exactly one record with is_duplicate = false, whatever the interleaving.
C1_OneOriginalPerFingerprint ==
    InFlight = {} =>
        \A h \in Hashes : WithHash(h) # {} => Cardinality(Originals(h)) = 1

\* C2: whenever no upload is inside its transaction, the reference_count of
\* each non-duplicate record is 1 + the number of duplicates pointing to it.
C2_ReferenceCountMatchesDuplicates ==
    (\A p \in Uploads : pc[p] # "insert_duplicate") =>
        \A o \in Rows : ~records[o].is_duplicate =>
            records[o].reference_count = 1 + Cardinality(DuplicatesOf(o))

\* C3: N uploads of the same content, one after another, leave one
\* non-duplicate and N-1 duplicate records of that fingerprint, with
\* reference_count = N and storage_saved = size * (N-1) on the non-duplicate.
C3_IdenticalUploadsCounted ==
    \A h \in Hashes :
        LET N == Cardinality(WithHash(h))
        IN  N >= 1 =>
              /\ Cardinality(Originals(h)) = 1
              /\ Cardinality(Duplicates(h)) = N - 1
              /\ \A o \in Originals(h) :
                    /\ records[o].reference_count = N
                    /\ storage_saved(records[o]) = records[o].size * (N - 1)

C3_Witness ==
    \E h \in Hashes :
        /\ Cardinality(WithHash(h)) = 3
        /\ \E o \in Originals(h) :
              records[o].size > 0 /\ storage_saved(records[o]) = 2 * records[o].size

\* C4: a content stored once is a non-duplicate with reference_count 1 and no
\* original_file, whatever other contents were uploaded; and a duplicate
\* always points to a record of its own fingerprint.
C4_DistinctContentsIndependent ==
    /\ \A h \in Hashes : Cardinality(WithHash(h)) = 1 =>
          \A i \in WithHash(h) :
              /\ ~records[i].is_duplicate
              /\ records[i].reference_count = 1
              /\ records[i].original_file = None
    /\ \A i \in Rows : records[i].is_duplicate =>
          /\ records[i].original_file \in Rows
          /\ records[records[i].original_file].file_hash = records[i].file_hash

C4_Witness ==
    /\ Len(records) = 2
    /\ records[1].file_hash # records[2].file_hash
    /\ InFlight = {}

\* C5: with uploads one after another, the records of a filename carry the
\* versions 1, 2, 3, ... in upload order, duplicates included, whatever was
\* uploaded under other names in between.
C5_VersionsCountUp ==
    \A i \in Rows :
        records[i].version =
            Cardinality({ j \in 1..i : records[j].original_filename =
                                          records[i].original_filename })

C5_Witness ==
    /\ Len(records) = 3
    /\ records[2].is_duplicate
    /\ records[2].original_filename # records[1].original_filename
    /\ records[2].version = 1
    /\ records[3].original_filename = records[1].original_filename
    /\ records[3].version = 2

\* C6: a reference-count increment that the database rejects as locked fewer
\* times than the retry ceiling is tried again instead of ending the upload.
C6_BusyIncrementRetried ==
    ( /\ executed.op = "increment"
      /\ Len(executed.answers) < max_retries
      /\ executed.answers[Len(executed.answers)] = "locked" )
    => ( /\ executed.left # "raise"
         /\ returned.status # HTTP_500_INTERNAL_SERVER_ERROR )

\* C7: an upload whose guarded statement is answered "locked" on every
\* attempt ends with a response other than the generic server-error one.
C7_ExhaustedIsServiceBusy ==
    ( /\ executed.op \in Guarded
      /\ Len(executed.answers) = max_retries
      /\ \A i \in 1..max_retries : executed.answers[i] = "locked" )
    => ( /\ returned.request = executed.request
         /\ returned.status # HTTP_201_CREATED
         /\ returned # Unexpected(executed.request) )

\* C8: an error of a guarded statement that is not "database is locked" ends
\* the call: it is the last answer, only the locked answers before it were
\* slept on (none when it is the first answer), and the upload ends with the
\* generic server error.
C8_NonContentionNotRetried ==
    executed.op \in Guarded =>
        \A i \in 1..Len(executed.answers) :
            executed.answers[i] \in NonContention =>
                /\ i = Len(executed.answers)
                /\ Len(executed.slept) = i - 1
                /\ \A j \in 1..(i - 1) : executed.answers[j] = "locked"
                /\ executed.left = "raise"
                /\ executed.err = executed.answers[i]
                /\ returned = Unexpected(executed.request)

C8_Witness ==
    /\ executed.op = "lookup"
    /\ executed.answers = << "operational" >>
    /\ executed.slept = << >>
    /\ returned.status = HTTP_500_INTERNAL_SERVER_ERROR

\* C9: execute_with_retry calls func at most max_retries times and sleeps
\* 0.5 s before the second call and 1.0 s before the third, never after the
\* last call.
C9_BackoffStartsAtBase ==
    /\ Len(executed.answers) <= max_retries
    /\ Len(executed.slept) <= max_retries - 1
    /\ Len(executed.slept) < Len(executed.answers) \/ executed.answers = << >>
    /\ \A k \in 1..Len(executed.slept) :
          executed.slept[k] = BaseDelayMs * Pow2(k - 1)

\* C10: the File table changes only in a step that returns 201; a step that
\* returns an error, and every step before it, leaves every row as it was,
\* the reference_count raised inside the failed transaction included.
C10_FailureLeavesStore ==
    [][returned'.status # HTTP_201_CREATED => records' = records]_vars

C10_Witness ==
    /\ executed.op = "insert_duplicate"
    /\ executed.left = "raise"
    /\ returned.status = HTTP_500_INTERNAL_SERVER_ERROR
    /\ Len(records) = 1
    /\ records[1].reference_count = 1

\* C11: every duplicate record points, by original_file, to an existing record
\* that is no duplicate, has the same file_hash and the same stored file; and
\* every non-duplicate record has no original_file.
C11_DuplicatesPointToOriginals ==
    \A i \in Rows :
        IF records[i].is_duplicate
        THEN /\ records[i].original_file \in Rows
             /\ ~records[records[i].original_file].is_duplicate
             /\ records[records[i].original_file].file_hash = records[i].file_hash
             /\ records[records[i].original_file].file = records[i].file
        ELSE records[i].original_file = None

C11_Witness ==
    \E i, j \in Rows :
        /\ i < j
        /\ records[i].is_duplicate
        /\ records[j].is_duplicate
        /\ records[i].file_hash = records[j].file_hash
        /\ records[j].original_file < i

\* C12: for every fingerprint, the records of the uploads that stored bytes
\* (the non-duplicates) name at most one stored file, whatever the
\* interleaving; duplicates store none.
C12_OneBlobPerFingerprint ==
    /\ \A h \in Hashes :
          Cardinality({ records[i].file : i \in Originals(h) }) <= 1
    /\ \A i \in Rows : records[i].is_duplicate =>
          \E o \in Rows : ~records[o].is_duplicate /\ records[o].file = records[i].file

C14_BusyInsertRetried ==
    ( /\ executed.op \in { "insert_original", "insert_duplicate" }
      /\ Len(executed.answers) < max_retries
      /\ executed.answers[Len(executed.answers)] = "locked" )
    => ( /\ executed.left # "raise"
         /\ returned.status = HTTP_201_CREATED )

\* The sum of f over the set S.
RECURSIVE SumOver(_, _)
SumOver(S, f) ==
    IF S = {} THEN 0
    ELSE LET x == CHOOSE y \in S : TRUE
         IN  f[x] + SumOver(S \ { x }, f)

NonDuplicateRows == { i \in Rows : ~records[i].is_duplicate }
Answered == stats.pc = "done" /\ stats.raised # "operational"

\* C15: over a table in which every size is present, a stats request that the
\* database answers returns total_storage = the sum of size over the
\* non-duplicate rows, storage_saved = the sum over the non-duplicate rows of
\* size * (reference_count - 1) where reference_count > 1 (0 elsewhere), and
\* storage_efficiency = 0 when total_storage is 0, else
\* storage_saved / total_storage * 100 (to the nearest hundredth).
C15_StatsFormulas ==
    ( Answered /\ \A i \in Rows : records[i].size # Null ) =>
        LET total == SumOver(NonDuplicateRows, [i \in Rows |-> records[i].size])
            saved == SumOver(NonDuplicateRows,
                             [i \in Rows |->
                                IF records[i].reference_count > 1
                                THEN records[i].size *
                                     (records[i].reference_count - 1)
                                ELSE 0])
        IN  /\ stats.status = HTTP_200_OK
            /\ stats.total_storage = total
            /\ stats.storage_saved = saved
            /\ IF total = 0
               THEN stats.storage_efficiency = 0
               ELSE LET off == stats.storage_efficiency * total - saved * 10000
                    IN  2 * off <= total /\ -2 * off <= total

C15_Witness ==
    /\ Answered
    /\ \A i \in Rows : records[i].size # Null
    /\ stats.total_storage = 10
    /\ stats.storage_saved = 3
    /\ stats.storage_efficiency = 3000

C17_UploadFrame ==
    [][ /\ Len(records') >= Len(records)
        /\ \A i \in Rows :
              records'[i] = [records[i] EXCEPT
                               !.reference_count = records'[i].reference_count]
        /\ LET changed == { i \in Rows : records'[i] # records[i] }
               new == records'[Len(records')]
           IN  /\ Cardinality(changed) <= 1
               /\ \A i \in changed :
                     /\ ~records[i].is_duplicate
                     /\ returned'.status = HTTP_201_CREATED
                     /\ Len(records') = Len(records) + 1
                     /\ new.is_duplicate
                     /\ new.original_file = i
                     /\ new.file_hash = records[i].file_hash
      ]_vars

C17_Witness ==
    /\ returned.kind = "DUPLICATE"
    /\ Len(records) = 3
    /\ records[1].reference_count = 2
    /\ records[2].file_hash # records[1].file_hash
    /\ ~records[2].is_duplicate
    /\ records[2].reference_count = 1
    /\ records[3].original_file = 1

\* C18: every committed write of a duplicate upload raises the stored
\* reference_count of the non-duplicate it points to by exactly 1, whatever
\* the interleaving, and no step lowers a stored reference_count.
C18_EachCommitAddsOne ==
    [][ /\ \A i \in Rows :
              Len(records') >= i =>
                  records'[i].reference_count >= records[i].reference_count
        /\ returned'.kind = "DUPLICATE" =>
              LET o == records'[Len(records')].original_file
              IN  records'[o].reference_count = records[o].reference_count + 1
      ]_vars

Outcomes == { "ORIGINAL", "DUPLICATE", "no_file", "hash_error", "unexpected" }

\* C19: every upload that has started ends, whatever the database answers,
\* with exactly one Response (a success or an error) and none after it; and a
\* call of execute_with_retry calls func at most max_retries times and sleeps
\* at most max_retries - 1 times.
C19_UploadTerminates ==
    /\ [](executed.op \in Guarded =>
            /\ Len(executed.answers) <= max_retries
            /\ Len(executed.slept) <= max_retries - 1)
    /\ \A p \in Uploads : (pc[p] \notin { "idle", "done" }) ~> (pc[p] = "done")
    /\ [][\A p \in Uploads :
            /\ (pc[p] # "done" /\ pc'[p] = "done") =>
                  (returned'.request = p /\ returned'.kind \in Outcomes)
            /\ pc[p] = "done" =>
                  (pc'[p] = "done" /\ returned'.request # p)]_vars

C19_Witness ==
    /\ executed.op = "version"
    /\ executed.answers = << "locked", "locked", "locked" >>
    /\ Len(executed.slept) = max_retries - 1
    /\ pc[executed.request] = "done"
    /\ returned.kind = "unexpected"

\* C20: with uploads one after another, a lookup or version query that is
\* answered "locked" at least once and then answers leaves the request where
\* the same query answered at once leaves it: the newest non-duplicate row of
\* the file's hash (or none) as existing_file, the highest version of the
\* file's name (or 0), the same next statement; and the retried reads change
\* nothing in the table or in storage.  The rest of create reads only this
\* state, so the outcome and the final store are the same.
C20_RetriedReadsRefine ==
    [][ ( /\ executed'.op \in Guarded
          /\ executed'.left = "return"
          /\ Len(executed'.answers) > 1 ) =>
        LET p == executed'.request
            originals == { i \in Rows :
                             /\ records[i].file_hash =
                                    compute_file_hash(file_obj[p].content)
                             /\ ~records[i].is_duplicate }
            versions == { records[i].version :
                            i \in { j \in Rows : records[j].original_filename =
                                                    file_obj[p].name } }
        IN  /\ records' = records
            /\ blobs' = blobs
            /\ file_obj' = file_obj
            /\ returned' = NoResponse
            /\ executed'.op = "lookup" =>
                  /\ pc'[p] = "version"
                  /\ highest_version' = highest_version
                  /\ IF originals = {}
                     THEN existing_file'[p] = NoInstance
                     ELSE /\ existing_file'[p].pk = Max(originals)
                          /\ existing_file'[p].reference_count =
                                records[Max(originals)].reference_count
                          /\ existing_file'[p].file = records[Max(originals)].file
            /\ executed'.op = "version" =>
                  /\ existing_file' = existing_file
                  /\ highest_version'[p] =
                        (IF versions = {} THEN 0 ELSE Max(versions))
                  /\ pc'[p] = (IF existing_file[p].pk # None
                               THEN "increment" ELSE "insert_original")
      ]_vars

C20_Witness ==
    /\ executed.op = "version"
    /\ executed.answers = << "locked", "locked", "ok" >>
    /\ existing_file[executed.request].pk # None
    /\ highest_version[executed.request] = 2
    /\ pc[executed.request] = "increment"

\* C21: the is_duplicate decision of every committed upload is made against a
\* lookup that is current when the upload mutates the store: an upload
\* commits as ORIGINAL only while the table holds no non-duplicate row of its
\* file_hash, and as DUPLICATE only with the reference_count its original
\* has then (an upload whose lookup went stale runs the cycle again).
C21_DecisionIsCurrent ==
    [][ /\ returned'.kind = "ORIGINAL" =>
              \A i \in Rows :
                  records[i].file_hash = records'[Len(records')].file_hash
                      => records[i].is_duplicate
        /\ returned'.kind = "DUPLICATE" =>
              LET p == returned'.request
              IN  existing_file[p].reference_count =
                      records[existing_file[p].pk].reference_count + 1
      ]_vars

SameVersion(i, j) ==
    /\ i # j
    /\ records[i].original_filename = records[j].original_filename
    /\ records[i].version = records[j].version

\* C22: when the requests are handled one after the other, no two records of
\* one filename carry the same version.  (That two concurrent uploads of one
\* filename can both commit with the same version, the store accepting the
\* second insert, is the state C22_Witness.)
C22_NoCollisionOneAfterTheOther ==
    serial => \A i, j \in Rows : ~SameVersion(i, j)

C22_Witness ==
    /\ ~serial
    /\ Len(records) = 2
    /\ SameVersion(1, 2)
    /\ returned = Created(returned.request, returned.kind, 2)
    /\ executed.left = "return"
    /\ InFlight = {}

\* C23: every successful stats Response has
\* total_files = unique_files + duplicate_files, also when uploads commit
\* between the count queries.
C23_CountsAddUp ==
    (stats.pc = "done" /\ stats.status = HTTP_200_OK) =>
        stats.total_files = stats.unique_files + stats.duplicate_files

====
